---- MODULE Spec2Model ----
(***************************************************************************)
(* The playback queue and worker of src/server.py: the pending deque, its  *)
(* lock, the now-playing slot, the cancellation event and the id counter,  *)
(* with the playback worker thread and the three tool handlers (speak,     *)
(* speech_status, speech_stop) running on concurrent handler threads.  One *)
(* step of the model is one access to shared state; the reads of           *)
(* _now_playing that a handler makes are separate steps, because the       *)
(* worker writes the slot without taking the lock.                         *)
(***************************************************************************)
EXTENDS Integers, Sequences, FiniteSets, TLC

\* ---------------------------------------------------------------- bounds
\* Items synthesised in a run: speak calls that reach _next_playback_id.
MaxItems == 2
\* Items pending behind the playing one when the stop scenario starts.
MaxPending == 2

\* The handler threads: each runs one tool call at a time, any of the three.
Threads == {"t1", "t2"}
Worker == "worker"
Free == "free"

\* ----------------------------------------------------------------- items
\* A playback item; None is Python's None (falsy, not subscriptable).
None == [id |-> 0]
Item(n) == [id |-> n]
Truthy(x) == x # None

VARIABLES
    queue,        \* _queue: the pending deque, head first
    queue_lock,   \* _queue_lock: Free or the thread holding it
    now_playing,  \* _now_playing
    stop_event,   \* _stop_event
    next_id,      \* _next_id
    busy,         \* pygame.mixer.music.get_busy()
    wpc,          \* the worker's position
    item,         \* the worker's local `item`
    pc,           \* each handler thread's position
    slocal, sret, \* speak: locals and return value per thread
    klocal, kret, \* speech_stop: the same
    olocal, oret, \* speech_status: the same
    \* history, read by the properties only
    issued,       \* ids returned by _next_playback_id, in order
    live,         \* ids appended and neither purged nor cleaned up, in append order
    signalled,    \* the event was set while the current item was playing
    expect,       \* the two items pending when a stop without purge hit a playing item
    enq,          \* per thread: the id its current speak call appended (0: none)
    kctx,         \* per thread: what its current speech_stop call met (see StopCall)
    halted,       \* the worker stopped the output of its current item (line 85)
    calm,         \* ids appended while no speech_stop call was running, none since
    dequeued,     \* ids the worker took with popleft, in order
    purged,       \* ids removed by _queue.clear()
    cleared_total, \* the sum of the cleared_count values returned
    \* durations, volumes and the wait estimate, in whole units (see Round1)
    durations,    \* input: what _estimate_duration gives for the audio of item n
    volume_arg,   \* input: the volume argument of the speak calls of the run
    stored_volume, \* item["volume"] of the item with id n (0: not built)
    ahead         \* per thread: what its speak call appended behind (history)

prog == <<queue, queue_lock, now_playing, stop_event, next_id, busy>>
wvars == <<wpc, item>>
svars == <<slocal, sret, enq>>
kvars == <<klocal, kret, kctx>>
ovars == <<olocal, oret>>
hist == <<issued, live, signalled, expect, halted, calm, dequeued, purged, cleared_total>>
est == <<durations, volume_arg, stored_volume, ahead>>
vars == <<prog, wvars, pc, svars, kvars, ovars, hist, est>>

Ids(s) == {s[i].id : i \in 1..Len(s)}
IdSeq(s) == [i \in 1..Len(s) |-> s[i].id]
Without(s, S) == SelectSeq(s, LAMBDA x : x \notin S)

\* The worker is between play() and the end of the busy-wait for its item.
Playing == wpc \in {"Busy", "Poll"}

\* The positions of a speak call between its entry and its return.
SpeakPcs == {"s161", "s173", "s178", "s179", "s181"}

\* The positions of a speech_stop call between its entry and its return.
StopPcs == {"k240", "k240text", "k241", "k244"}

\* Some tool call has returned and its return value is not yet delivered.
\* Every step of the program waits for the delivery (~SomeReturned): Done
\* changes no state of the program, so its precedence loses no behaviour.
SomeReturned == \E t \in Threads : pc[t] = "returned"

NoSpeakLocals == [playback_id |-> 0, volume |-> 0, wait |-> 0]
NoReturn == [kind |-> "none", playback_id |-> 0, estimated_wait |-> 0]
NoStopLocals == [clear_queue |-> FALSE, stopped |-> 0, cleared |-> 0]
NoStopReturn == [kind |-> "none", stopped |-> 0, cleared_count |-> 0]
NoStatusLocals == [queued |-> <<>>, playing |-> 0]
NoStatusReturn == [kind |-> "none", now_playing |-> 0, queue_depth |-> 0, queued |-> <<>>]
NoExpect == [next |-> 0, then |-> 0]
NoCtx == -1
NoAhead == [sum |-> 0, at_append |-> 0, at_read |-> 0]

\* ------------------------------------------------- durations and volumes
\* Durations and waits are counted in eighths of a second (exact as binary
\* floats, so the float arithmetic of lines 177-179 is exact on them), the
\* rounded seconds of the return record in tenths, volumes in hundredths.
\* Items pending when the estimate scenario starts.
MaxAhead == 2
\* _estimate_duration (line 37-44) of the audio: 0.25 s, 2.0 s or 3.0 s.
Durations == {2, 16, 24}
\* The volume argument of a call: left out, or a number given.
Omitted == [given |-> FALSE, value |-> 0]
Given(v) == [given |-> TRUE, value |-> v]
Volumes == {Omitted} \cup {Given(v) : v \in {-100, 0, 50, 500}}
DefaultVolume == 15
MinVolume == 1
MaxVolume == 100
Max(a, b) == IF a >= b THEN a ELSE b
Min(a, b) == IF a <= b THEN a ELSE b
\* line 116: volume: Optional[float] = 0.15
VolumeParam(a) == IF a.given THEN a.value ELSE DefaultVolume
\* line 136: max(0.01, min(1.00, volume or 0.15)); `or` takes 0.15 for
\* every falsy volume, and 0 is falsy.
ClampVolume(v) == Max(MinVolume, Min(MaxVolume, IF v = 0 THEN DefaultVolume ELSE v))

\* line 177: sum(q["duration"] for q in _queue)
RECURSIVE SumDurations(_, _)
SumDurations(q, d) ==
    IF q = <<>> THEN 0 ELSE d[Head(q).id] + SumDurations(Tail(q), d)
\* Mutant: the duration of the new item is not taken off.
PendingWaitAll(q, d, own) == SumDurations(q, d)
\* line 177: wait = sum(...) - duration, the deque holding the new item.
PendingWait(q, d, own) == SumDurations(q, d) - own
\* Mutant: the whole duration of the playing item.
HalfPlayingWhole(np, d) == d[np.id]
\* line 179: _now_playing["duration"] * 0.5
HalfPlaying(np, d) == d[np.id] \div 2
\* line 184: round(wait, 1) of x eighths, in tenths: the nearest tenth, and
\* of two equally near ones the even one (an eighth is an exact float).
Round1(x) ==
    LET q == (5 * x) \div 4
        r == (5 * x) % 4
    IN  IF r < 2 THEN q
        ELSE IF r > 2 THEN q + 1
        ELSE IF q % 2 = 0 THEN q ELSE q + 1

Init ==
    /\ queue = <<>>
    /\ queue_lock = Free
    /\ now_playing = None
    /\ stop_event = FALSE
    /\ next_id = 0
    /\ busy = FALSE
    /\ wpc = "Idle"
    /\ item = None
    /\ pc = [t \in Threads |-> "idle"]
    /\ slocal = [t \in Threads |-> NoSpeakLocals]
    /\ sret = [t \in Threads |-> NoReturn]
    /\ klocal = [t \in Threads |-> NoStopLocals]
    /\ kret = [t \in Threads |-> NoStopReturn]
    /\ olocal = [t \in Threads |-> NoStatusLocals]
    /\ oret = [t \in Threads |-> NoStatusReturn]
    /\ issued = <<>>
    /\ live = <<>>
    /\ signalled = FALSE
    /\ expect = NoExpect
    /\ enq = [t \in Threads |-> 0]
    /\ kctx = [t \in Threads |-> NoCtx]
    /\ halted = FALSE
    /\ calm = {}
    /\ dequeued = <<>>
    /\ purged = {}
    /\ cleared_total = 0
    /\ durations = [n \in 1..MaxItems |-> 16]
    /\ volume_arg = Omitted
    /\ stored_volume = [n \in 1..MaxItems |-> 0]
    /\ ahead = [t \in Threads |-> NoAhead]

\* ---------------------------------------------------------- deque and ids
\* collections.deque: append at the tail, popleft from the head.
DequeAppend(q, x) == Append(q, x)
\* Mutants of popleft: pop() from the tail; a peek that removes nothing.
PopRight(q) == [head |-> q[Len(q)], rest |-> SubSeq(q, 1, Len(q) - 1)]
PeekLeft(q) == [head |-> Head(q), rest |-> q]
\* popleft: the head and the deque without it.
PopLeft(q) == [head |-> Head(q), rest |-> Tail(q)]

\* Mutant: after the first id the increment is lost.
NextPlaybackIdStale(n) == IF n = 0 THEN 1 ELSE n
\* _next_playback_id: under _id_lock, increment the counter and return it.
\* The lock makes the read-increment-return one step.
NextPlaybackId(n) == n + 1

\* ------------------------------------------------------------ the worker
\* line 57-58: `with _queue_lock:` inside the wait-for-items loop.
WorkerAcquire ==
    /\ ~SomeReturned
    /\ UNCHANGED est
    /\ wpc = "Idle"
    /\ queue_lock = Free
    /\ queue_lock' = Worker
    /\ wpc' = "Dequeue"
    /\ UNCHANGED <<queue, now_playing, stop_event, next_id, busy, item>>
    /\ UNCHANGED <<pc, svars, kvars, ovars, hist>>

\* Mutant: the with block does not end at the popleft; the lock is kept.
WorkerDequeueHold ==
    /\ ~SomeReturned
    /\ UNCHANGED est
    /\ wpc = "Dequeue"
    /\ IF queue # <<>>
         THEN /\ item' = PopLeft(queue).head
              /\ queue' = PopLeft(queue).rest
              /\ dequeued' = Append(dequeued, item'.id)
              /\ wpc' = "Publish"
              /\ UNCHANGED queue_lock
         ELSE /\ wpc' = "Idle"
              /\ queue_lock' = Free
              /\ UNCHANGED <<item, queue, dequeued>>
    /\ UNCHANGED <<now_playing, stop_event, next_id, busy>>
    /\ UNCHANGED <<pc, svars, kvars, ovars>>
    /\ UNCHANGED <<issued, live, signalled, expect, halted, calm, purged, cleared_total>>

\* line 59-62: popleft if the deque is non-empty, leave the lock, then either
\* go on with the item or sleep 50 ms and poll again.
WorkerDequeue ==
    /\ ~SomeReturned
    /\ UNCHANGED est
    /\ wpc = "Dequeue"
    /\ queue_lock' = Free
    /\ IF queue # <<>>
         THEN /\ item' = PopLeft(queue).head
              /\ queue' = PopLeft(queue).rest
              /\ dequeued' = Append(dequeued, item'.id)
              /\ wpc' = "Publish"
         ELSE /\ wpc' = "Idle"
              /\ UNCHANGED <<item, queue, dequeued>>
    /\ UNCHANGED <<now_playing, stop_event, next_id, busy>>
    /\ UNCHANGED <<pc, svars, kvars, ovars>>
    /\ UNCHANGED <<issued, live, signalled, expect, halted, calm, purged, cleared_total>>

\* line 64: _now_playing = item
WorkerPublish ==
    /\ ~SomeReturned
    /\ UNCHANGED est
    /\ wpc = "Publish"
    /\ now_playing' = item
    /\ wpc' = "ClearSignal"
    /\ UNCHANGED <<queue, queue_lock, stop_event, next_id, busy, item>>
    /\ UNCHANGED <<pc, svars, kvars, ovars, hist>>

\* Mutant: the event is not cleared for the new item.
WorkerClearSignalKeep ==
    /\ ~SomeReturned
    /\ UNCHANGED est
    /\ wpc = "ClearSignal"
    /\ expect' = NoExpect
    /\ wpc' = "Load"
    /\ UNCHANGED <<queue, queue_lock, now_playing, stop_event, next_id, busy, item>>
    /\ UNCHANGED <<pc, svars, kvars, ovars, issued, live, signalled>>
    /\ UNCHANGED <<halted, calm, dequeued, purged, cleared_total>>

\* line 65-67: _stop_event.clear(); temp_file = None
WorkerClearSignal ==
    /\ ~SomeReturned
    /\ UNCHANGED est
    /\ wpc = "ClearSignal"
    /\ stop_event' = FALSE
    /\ expect' = NoExpect
    /\ wpc' = "Load"
    /\ UNCHANGED <<queue, queue_lock, now_playing, next_id, busy, item>>
    /\ UNCHANGED <<pc, svars, kvars, ovars, issued, live, signalled>>
    /\ UNCHANGED <<halted, calm, dequeued, purged, cleared_total>>

\* line 69-78: set the volume and load the audio, from memory or, when that
\* raises, from a temporary file (a local of this iteration, removed again
\* at line 96-100); set_volume, the file write or the second load may raise.
WorkerLoad(ok) ==
    /\ ~SomeReturned
    /\ UNCHANGED est
    /\ wpc = "Load"
    /\ wpc' = IF ok THEN "Play" ELSE "Except"
    /\ UNCHANGED <<prog, item>>
    /\ UNCHANGED <<pc, svars, kvars, ovars, hist>>

\* line 80: pygame.mixer.music.play(), which may raise.
WorkerPlay(ok) ==
    /\ ~SomeReturned
    /\ UNCHANGED est
    /\ wpc = "Play"
    /\ IF ok THEN busy' = TRUE /\ wpc' = "Busy"
             ELSE wpc' = "Except" /\ UNCHANGED busy
    /\ UNCHANGED <<queue, queue_lock, now_playing, stop_event, next_id, item>>
    /\ UNCHANGED <<pc, svars, kvars, ovars, hist>>

\* line 82: while pygame.mixer.music.get_busy(); a device failure raises and
\* ends the output.
WorkerBusy(ok) ==
    /\ ~SomeReturned
    /\ UNCHANGED est
    /\ wpc = "Busy"
    /\ IF ok THEN wpc' = (IF busy THEN "Poll" ELSE "Post") /\ UNCHANGED busy
             ELSE wpc' = "Except" /\ busy' = FALSE
    /\ UNCHANGED <<queue, queue_lock, now_playing, stop_event, next_id, item>>
    /\ UNCHANGED <<pc, svars, kvars, ovars, hist>>

\* Mutant: the loop never looks at the event.
WorkerPollDeaf ==
    /\ ~SomeReturned
    /\ UNCHANGED est
    /\ wpc = "Poll"
    /\ wpc' = "Busy"
    /\ UNCHANGED <<queue, queue_lock, now_playing, stop_event, next_id, busy, item>>
    /\ UNCHANGED <<pc, svars, kvars, ovars, hist>>

\* line 83-86: if the event is set, stop the output and break; else wait 50 ms.
WorkerPoll ==
    /\ ~SomeReturned
    /\ UNCHANGED est
    /\ wpc = "Poll"
    /\ IF stop_event
         THEN busy' = FALSE /\ halted' = TRUE /\ wpc' = "Post"
         ELSE wpc' = "Busy" /\ UNCHANGED <<busy, halted>>
    /\ UNCHANGED <<queue, queue_lock, now_playing, stop_event, next_id, item>>
    /\ UNCHANGED <<pc, svars, kvars, ovars>>
    /\ UNCHANGED <<issued, live, signalled, expect, calm, dequeued, purged, cleared_total>>

\* Mutants: the settle wait is made whatever the event says; it is never made.
WorkerPostSettle ==
    /\ ~SomeReturned
    /\ UNCHANGED est
    /\ wpc = "Post"
    /\ wpc' = "Settle"
    /\ UNCHANGED <<prog, item>>
    /\ UNCHANGED <<pc, svars, kvars, ovars, hist>>

WorkerPostSkip ==
    /\ ~SomeReturned
    /\ UNCHANGED est
    /\ wpc = "Post"
    /\ wpc' = "Finally"
    /\ UNCHANGED <<prog, item>>
    /\ UNCHANGED <<pc, svars, kvars, ovars, hist>>

\* line 88: if not _stop_event.is_set(): go on to the settle wait.
WorkerPost ==
    /\ ~SomeReturned
    /\ UNCHANGED est
    /\ wpc = "Post"
    /\ wpc' = IF stop_event THEN "Finally" ELSE "Settle"
    /\ UNCHANGED <<prog, item>>
    /\ UNCHANGED <<pc, svars, kvars, ovars, hist>>

\* line 90: time.sleep(0.3)
WorkerSettle ==
    /\ ~SomeReturned
    /\ UNCHANGED est
    /\ wpc = "Settle"
    /\ wpc' = "Finally"
    /\ UNCHANGED <<prog, item>>
    /\ UNCHANGED <<pc, svars, kvars, ovars, hist>>

\* Mutant: the exception is not caught and ends the worker thread.
WorkerExceptFatal ==
    /\ ~SomeReturned
    /\ UNCHANGED est
    /\ wpc = "Except"
    /\ wpc' = "Dead"
    /\ UNCHANGED <<prog, item>>
    /\ UNCHANGED <<pc, svars, kvars, ovars, hist>>

\* line 92-93: except Exception: pass
WorkerExcept ==
    /\ ~SomeReturned
    /\ UNCHANGED est
    /\ wpc = "Except"
    /\ wpc' = "Finally"
    /\ UNCHANGED <<prog, item>>
    /\ UNCHANGED <<pc, svars, kvars, ovars, hist>>

\* line 94-100, 54-56: finally: _now_playing = None (and the temporary file
\* removed); the loop starts over with item = None.
WorkerFinally ==
    /\ ~SomeReturned
    /\ UNCHANGED est
    /\ wpc = "Finally"
    /\ now_playing' = None
    /\ live' = Without(live, {item.id})
    /\ signalled' = FALSE
    /\ item' = None
    /\ wpc' = "Idle"
    /\ UNCHANGED <<queue, queue_lock, stop_event, next_id, busy>>
    /\ halted' = FALSE
    /\ calm' = calm \ {item.id}
    /\ UNCHANGED <<pc, svars, kvars, ovars, issued, expect, dequeued, purged, cleared_total>>

\* The audio device reaches the end of the stream by itself.
DeviceEnd ==
    /\ ~SomeReturned
    /\ UNCHANGED est
    /\ busy
    /\ busy' = FALSE
    /\ UNCHANGED <<queue, queue_lock, now_playing, stop_event, next_id>>
    /\ UNCHANGED <<wvars, pc, svars, kvars, ovars, hist>>

WorkerStep ==
    \/ WorkerAcquire
    \/ WorkerDequeue
    \/ WorkerPublish
    \/ WorkerClearSignal
    \/ \E ok \in BOOLEAN : WorkerLoad(ok)
    \/ \E ok \in BOOLEAN : WorkerPlay(ok)
    \/ \E ok \in BOOLEAN : WorkerBusy(ok)
    \/ WorkerPoll
    \/ WorkerPost
    \/ WorkerSettle
    \/ WorkerExcept
    \/ WorkerFinally

\* ----------------------------------------------------------------- speak
ErrorKinds == {"tts_error", "conn_error", "timeout_error", "error"}
SpeakError(kind) == [kind |-> kind, playback_id |-> 0, estimated_wait |-> 0]

\* line 135-159, 189-194: clamp the volume, build the request and post it.
\* The backend answers 200, answers another status, refuses the connection
\* or times out; anything else raised is caught at line 193.
BackendOutcomes == {"200", "non200", "refused", "timeout", "exception"}
BackendErrorKind(outcome) ==
    CASE outcome = "non200" -> "tts_error"
      [] outcome = "refused" -> "conn_error"
      [] outcome = "timeout" -> "timeout_error"
      [] outcome = "exception" -> "error"

\* The items synthesised so far: the ids taken and the 200 answers whose
\* calls have not taken theirs yet.
Synthesised == next_id + Cardinality({u \in Threads : pc[u] = "s161"})

\* Mutant: the id is taken before the request is posted, so a failed request
\* has used one up.
SpeakCallEager(t, outcome) ==
    /\ ~SomeReturned
    /\ UNCHANGED est
    /\ pc[t] = "idle"
    /\ Synthesised + 1 \in DOMAIN durations
    /\ next_id' = next_id + 1
    /\ IF outcome = "200"
         THEN /\ pc' = [pc EXCEPT ![t] = "s173"]
              /\ slocal' = [slocal EXCEPT ![t].playback_id = next_id',
                                          ![t].volume = ClampVolume(VolumeParam(volume_arg))]
              /\ issued' = Append(issued, next_id')
              /\ UNCHANGED sret
         ELSE /\ pc' = [pc EXCEPT ![t] = "returned"]
              /\ sret' = [sret EXCEPT ![t] = SpeakError(BackendErrorKind(outcome))]
              /\ UNCHANGED <<slocal, issued>>
    /\ kctx' = [u \in Threads |-> NoCtx]
    /\ UNCHANGED <<queue, queue_lock, now_playing, stop_event, busy>>
    /\ UNCHANGED <<wvars, enq, klocal, kret, ovars, live, signalled, expect>>
    /\ UNCHANGED <<halted, calm, dequeued, purged, cleared_total>>

\* The call up to the answer of the backend: the volume is clamped first
\* (line 136), and an error answer returns at once.  (A 200 leads to a new
\* item; a run makes the items that `durations` has the audio of.)
SpeakCall(t, outcome) ==
    /\ ~SomeReturned
    /\ UNCHANGED est
    /\ pc[t] = "idle"
    /\ outcome = "200" => Synthesised + 1 \in DOMAIN durations
    /\ IF outcome = "200"
         THEN /\ pc' = [pc EXCEPT ![t] = "s161"]
              /\ slocal' = [slocal EXCEPT ![t].volume = ClampVolume(VolumeParam(volume_arg))]
              /\ UNCHANGED sret
         ELSE /\ pc' = [pc EXCEPT ![t] = "returned"]
              /\ sret' = [sret EXCEPT ![t] = SpeakError(BackendErrorKind(outcome))]
              /\ UNCHANGED slocal
    /\ kctx' = [u \in Threads |-> NoCtx]
    /\ UNCHANGED <<prog, wvars, enq, klocal, kret, ovars, hist>>

\* line 161-171: playback_id = _next_playback_id(); build the item.
SpeakNextId(t) ==
    /\ ~SomeReturned
    /\ UNCHANGED <<durations, volume_arg, ahead>>
    /\ pc[t] = "s161"
    /\ next_id' = NextPlaybackId(next_id)
    /\ stored_volume' = [n \in DOMAIN stored_volume |->
                            IF n = next_id' THEN slocal[t].volume ELSE stored_volume[n]]
    /\ slocal' = [slocal EXCEPT ![t].playback_id = next_id']
    /\ issued' = Append(issued, next_id')
    /\ pc' = [pc EXCEPT ![t] = "s173"]
    /\ UNCHANGED <<queue, queue_lock, now_playing, stop_event, busy>>
    /\ UNCHANGED <<wvars, sret, enq, kvars, ovars, live, signalled, expect>>
    /\ UNCHANGED <<halted, calm, dequeued, purged, cleared_total>>

\* line 173-177: take the lock and append the item (queue_pos and the sum of
\* the pending durations are locals that only the return value shows).  The
\* lock stays held: line 178 is next.
SpeakAppend(t) ==
    /\ ~SomeReturned
    /\ UNCHANGED <<durations, volume_arg, stored_volume>>
    /\ pc[t] = "s173"
    /\ queue_lock = Free
    /\ queue_lock' = t
    /\ queue' = DequeAppend(queue, Item(slocal[t].playback_id))
    /\ slocal' = [slocal EXCEPT ![t].wait =
                     PendingWait(queue', durations, durations[slocal[t].playback_id])]
    /\ ahead' = [ahead EXCEPT ![t] = [sum |-> SumDurations(queue, durations),
                                      at_append |-> now_playing.id,
                                      at_read |-> 0]]
    /\ live' = Append(live, slocal[t].playback_id)
    /\ enq' = [enq EXCEPT ![t] = slocal[t].playback_id]
    /\ pc' = [pc EXCEPT ![t] = "s178"]
    /\ UNCHANGED <<now_playing, stop_event, next_id, busy>>
    /\ calm' = IF \A u \in Threads : pc[u] \notin StopPcs
                 THEN calm \cup {slocal[t].playback_id} ELSE calm
    /\ UNCHANGED <<wvars, sret, kvars, ovars, issued, signalled, expect>>
    /\ UNCHANGED <<halted, dequeued, purged, cleared_total>>

\* line 178: if _now_playing:   (a read of the slot the lock does not guard)
SpeakTestPlaying(t) ==
    /\ ~SomeReturned
    /\ UNCHANGED est
    /\ pc[t] = "s178"
    /\ pc' = [pc EXCEPT ![t] = IF Truthy(now_playing) THEN "s179" ELSE "s181"]
    /\ UNCHANGED <<prog, wvars, svars, kvars, ovars, hist>>

\* line 179: wait += _now_playing["duration"] * 0.5, a second read of the
\* slot.  On None the subscript raises TypeError: the with block releases the
\* lock and line 193-194 returns "Error: ...".
SpeakReadPlaying(t) ==
    /\ ~SomeReturned
    /\ UNCHANGED <<durations, volume_arg, stored_volume>>
    /\ pc[t] = "s179"
    /\ IF Truthy(now_playing)
         THEN /\ pc' = [pc EXCEPT ![t] = "s181"]
              /\ slocal' = [slocal EXCEPT ![t].wait = @ + HalfPlaying(now_playing, durations)]
              /\ ahead' = [ahead EXCEPT ![t].at_read = now_playing.id]
              /\ UNCHANGED <<queue_lock, sret>>
         ELSE /\ pc' = [pc EXCEPT ![t] = "returned"]
              /\ queue_lock' = Free
              /\ sret' = [sret EXCEPT ![t] = SpeakError("error")]
              /\ UNCHANGED <<slocal, ahead>>
    /\ UNCHANGED <<queue, now_playing, stop_event, next_id, busy>>
    /\ UNCHANGED <<wvars, enq, kvars, ovars, hist>>

\* end of the with block, line 181-187: release the lock, return the record.
SpeakReturn(t) ==
    /\ ~SomeReturned
    /\ UNCHANGED est
    /\ pc[t] = "s181"
    /\ queue_lock' = Free
    /\ sret' = [sret EXCEPT ![t] = [kind |-> "ok",
                                    playback_id |-> slocal[t].playback_id,
                                    estimated_wait |-> Round1(slocal[t].wait)]]
    /\ pc' = [pc EXCEPT ![t] = "returned"]
    /\ UNCHANGED <<queue, now_playing, stop_event, next_id, busy>>
    /\ UNCHANGED <<wvars, slocal, enq, kvars, ovars, hist>>

SpeakStep(t) ==
    \/ \E outcome \in BackendOutcomes : SpeakCall(t, outcome)
    \/ SpeakNextId(t)
    \/ SpeakAppend(t)
    \/ SpeakTestPlaying(t)
    \/ SpeakReadPlaying(t)
    \/ SpeakReturn(t)

\* ----------------------------------------------------------- speech_stop
StopRaised == [kind |-> "raised", stopped |-> 0, cleared_count |-> 0]
StopResponse(l) == [kind |-> "ok", stopped |-> l.stopped, cleared_count |-> l.cleared]

\* line 236-239: stopped = None; cleared = 0; if _now_playing:
\* History: kctx is the number of pending items if the call asks for a purge
\* while an item is playing and no speak call is running, and -1 if not, or
\* once a speak call starts or another speech_stop call purges.
StopCall(t, clear_queue) ==
    /\ ~SomeReturned
    /\ UNCHANGED est
    /\ pc[t] = "idle"
    /\ klocal' = [klocal EXCEPT ![t] =
                    [clear_queue |-> clear_queue, stopped |-> 0, cleared |-> 0]]
    /\ kctx' = [kctx EXCEPT ![t] =
                    IF /\ clear_queue /\ Playing /\ busy /\ now_playing = item
                       /\ \A u \in Threads : pc[u] \notin SpeakPcs
                      THEN Len(queue) ELSE NoCtx]
    /\ pc' = [pc EXCEPT ![t] = IF Truthy(now_playing) THEN "k240" ELSE "k241"]
    /\ calm' = {}
    /\ UNCHANGED <<prog, wvars, svars, kret, ovars>>
    /\ UNCHANGED <<issued, live, signalled, expect, halted, dequeued, purged, cleared_total>>

\* line 240: _now_playing["id"]; None here raises TypeError out of the tool.
StopReadId(t) ==
    /\ ~SomeReturned
    /\ UNCHANGED est
    /\ pc[t] = "k240"
    /\ IF Truthy(now_playing)
         THEN /\ klocal' = [klocal EXCEPT ![t].stopped = now_playing.id]
              /\ pc' = [pc EXCEPT ![t] = "k240text"]
              /\ UNCHANGED kret
         ELSE /\ kret' = [kret EXCEPT ![t] = StopRaised]
              /\ pc' = [pc EXCEPT ![t] = "returned"]
              /\ UNCHANGED klocal
    /\ UNCHANGED <<prog, wvars, svars, kctx, ovars, hist>>

\* line 240: _now_playing["text"][:60], the next read of the slot.
StopReadText(t) ==
    /\ ~SomeReturned
    /\ UNCHANGED est
    /\ pc[t] = "k240text"
    /\ IF Truthy(now_playing)
         THEN /\ pc' = [pc EXCEPT ![t] = "k241"]
              /\ UNCHANGED kret
         ELSE /\ kret' = [kret EXCEPT ![t] = StopRaised]
              /\ pc' = [pc EXCEPT ![t] = "returned"]
    /\ UNCHANGED <<prog, wvars, svars, klocal, kctx, ovars, hist>>

\* line 241-243, 248-251: _stop_event.set(); if clear_queue: ... else return.
\* History: the event reaches an item that is playing (signalled); without
\* clear_queue, with the item this call reported playing and two or more
\* pending, expect notes the two at the head.
StopSet(t) ==
    /\ ~SomeReturned
    /\ UNCHANGED est
    /\ pc[t] = "k241"
    /\ stop_event' = TRUE
    /\ signalled' = (signalled \/ Playing)
    /\ expect' = IF /\ ~klocal[t].clear_queue
                    /\ Playing /\ busy /\ item.id = klocal[t].stopped
                    /\ Len(queue) >= 2
                   THEN [next |-> queue[1].id, then |-> queue[2].id]
                   ELSE expect
    /\ IF klocal[t].clear_queue
         THEN /\ pc' = [pc EXCEPT ![t] = "k244"]
              /\ UNCHANGED kret
         ELSE /\ pc' = [pc EXCEPT ![t] = "returned"]
              /\ kret' = [kret EXCEPT ![t] = StopResponse(klocal[t])]
    /\ UNCHANGED <<queue, queue_lock, now_playing, next_id, busy>>
    /\ UNCHANGED <<wvars, svars, klocal, kctx, ovars, issued, live>>
    /\ UNCHANGED <<halted, calm, dequeued, purged, cleared_total>>

\* Mutant: the count includes the item in the slot.
StopClearCountPlaying(t) ==
    /\ ~SomeReturned
    /\ UNCHANGED est
    /\ pc[t] = "k244"
    /\ queue_lock = Free
    /\ klocal' = [klocal EXCEPT ![t].cleared =
                    Len(queue) + (IF Truthy(now_playing) THEN 1 ELSE 0)]
    /\ live' = Without(live, Ids(queue))
    /\ expect' = NoExpect
    /\ queue' = <<>>
    /\ kret' = [kret EXCEPT ![t] = StopResponse(klocal'[t])]
    /\ pc' = [pc EXCEPT ![t] = "returned"]
    /\ kctx' = [u \in Threads |-> IF u = t THEN kctx[t] ELSE NoCtx]
    /\ UNCHANGED <<queue_lock, now_playing, stop_event, next_id, busy>>
    /\ purged' = purged \cup Ids(queue)
    /\ cleared_total' = cleared_total + kret'[t].cleared_count
    /\ UNCHANGED <<wvars, svars, ovars, issued, signalled, halted, calm, dequeued>>

\* line 244-251: under the lock, cleared = len(_queue); _queue.clear(); then
\* return.  The block touches the deque only, so it is one step.
StopClear(t) ==
    /\ ~SomeReturned
    /\ UNCHANGED est
    /\ pc[t] = "k244"
    /\ queue_lock = Free
    /\ klocal' = [klocal EXCEPT ![t].cleared = Len(queue)]
    /\ live' = Without(live, Ids(queue))
    /\ expect' = NoExpect
    /\ queue' = <<>>
    /\ kret' = [kret EXCEPT ![t] = StopResponse(klocal'[t])]
    /\ pc' = [pc EXCEPT ![t] = "returned"]
    /\ kctx' = [u \in Threads |-> IF u = t THEN kctx[t] ELSE NoCtx]
    /\ UNCHANGED <<queue_lock, now_playing, stop_event, next_id, busy>>
    /\ purged' = purged \cup Ids(queue)
    /\ cleared_total' = cleared_total + kret'[t].cleared_count
    /\ UNCHANGED <<wvars, svars, ovars, issued, signalled, halted, calm, dequeued>>

StopStep(t) ==
    \/ \E clear_queue \in BOOLEAN : StopCall(t, clear_queue)
    \/ StopReadId(t)
    \/ StopReadText(t)
    \/ StopSet(t)
    \/ StopClear(t)

\* --------------------------------------------------------- speech_status
StatusRaised == [kind |-> "raised", now_playing |-> 0, queue_depth |-> 0, queued |-> <<>>]
StatusResponse(l) ==
    [kind |-> "ok", now_playing |-> l.playing, queue_depth |-> Len(l.queued),
     queued |-> l.queued]

\* the call is made; line 205 is next.
StatusCall(t) ==
    /\ ~SomeReturned
    /\ UNCHANGED est
    /\ pc[t] = "idle"
    /\ pc' = [pc EXCEPT ![t] = "o205"]
    /\ UNCHANGED <<prog, wvars, svars, kvars, ovars, hist>>

\* line 205-208: under the lock, copy the deque; playing = None.  Nothing in
\* the block reads state the lock does not guard, so the block is one step.
StatusSnapshot(t) ==
    /\ ~SomeReturned
    /\ UNCHANGED est
    /\ pc[t] = "o205"
    /\ queue_lock = Free
    /\ olocal' = [olocal EXCEPT ![t].queued = IdSeq(queue)]
    /\ pc' = [pc EXCEPT ![t] = "o209"]
    /\ UNCHANGED <<prog, wvars, svars, kvars, oret, hist>>

\* line 209: if _now_playing:   else line 217-221 returns.
StatusTest(t) ==
    /\ ~SomeReturned
    /\ UNCHANGED est
    /\ pc[t] = "o209"
    /\ IF Truthy(now_playing)
         THEN /\ pc' = [pc EXCEPT ![t] = "o211"]
              /\ UNCHANGED oret
         ELSE /\ pc' = [pc EXCEPT ![t] = "returned"]
              /\ oret' = [oret EXCEPT ![t] = StatusResponse(olocal[t])]
    /\ UNCHANGED <<prog, wvars, svars, kvars, olocal, hist>>

\* line 211: _now_playing["id"]
StatusReadId(t) ==
    /\ ~SomeReturned
    /\ UNCHANGED est
    /\ pc[t] = "o211"
    /\ IF Truthy(now_playing)
         THEN /\ olocal' = [olocal EXCEPT ![t].playing = now_playing.id]
              /\ pc' = [pc EXCEPT ![t] = "o212"]
              /\ UNCHANGED oret
         ELSE /\ oret' = [oret EXCEPT ![t] = StatusRaised]
              /\ pc' = [pc EXCEPT ![t] = "returned"]
              /\ UNCHANGED olocal
    /\ UNCHANGED <<prog, wvars, svars, kvars, hist>>

\* line 212-214: the reads of source, text and duration; line 217-221 returns.
\* Each is a read of the slot; the three are one step, as they differ only in
\* which of them meets None.
StatusReadRest(t) ==
    /\ ~SomeReturned
    /\ UNCHANGED est
    /\ pc[t] = "o212"
    /\ oret' = [oret EXCEPT ![t] =
                  IF Truthy(now_playing) THEN StatusResponse(olocal[t]) ELSE StatusRaised]
    /\ pc' = [pc EXCEPT ![t] = "returned"]
    /\ UNCHANGED <<prog, wvars, svars, kvars, olocal, hist>>

StatusStep(t) ==
    \/ StatusCall(t)
    \/ StatusSnapshot(t)
    \/ StatusTest(t)
    \/ StatusReadId(t)
    \/ StatusReadRest(t)

\* line 108, 197, 224 (@mcp.tool()): the tool call is over: the transport has
\* delivered its return value and the thread is free for the next call.
Done(t) ==
    /\ pc[t] = "returned"
    /\ pc' = [pc EXCEPT ![t] = "idle"]
    /\ sret' = [sret EXCEPT ![t] = NoReturn]
    /\ slocal' = [slocal EXCEPT ![t] = NoSpeakLocals]
    /\ enq' = [enq EXCEPT ![t] = 0]
    /\ kret' = [kret EXCEPT ![t] = NoStopReturn]
    /\ klocal' = [klocal EXCEPT ![t] = NoStopLocals]
    /\ kctx' = [kctx EXCEPT ![t] = NoCtx]
    /\ oret' = [oret EXCEPT ![t] = NoStatusReturn]
    /\ olocal' = [olocal EXCEPT ![t] = NoStatusLocals]
    /\ ahead' = [ahead EXCEPT ![t] = NoAhead]
    /\ UNCHANGED <<prog, wvars, hist, durations, volume_arg, stored_volume>>

\* --------------------------------------------------------- specification
Next ==
    \/ WorkerStep
    \/ DeviceEnd
    \/ \E t \in Threads : SpeakStep(t)
    \/ \E t \in Threads : StopStep(t)
    \/ \E t \in Threads : StatusStep(t)
    \/ \E t \in Threads : Done(t)

Spec == Init /\ [][Next]_vars

\* The stop scenario: item 1 is playing and MaxPending items are pending
\* behind it, all speak calls that made them have returned, and from here
\* only speech_stop and speech_status are called.
StopInit ==
    /\ queue = [i \in 1..MaxPending |-> Item(i + 1)]
    /\ queue_lock = Free
    /\ now_playing = Item(1)
    /\ stop_event = FALSE
    /\ next_id = MaxPending + 1
    /\ busy = TRUE
    /\ wpc = "Busy"
    /\ item = Item(1)
    /\ pc = [t \in Threads |-> "idle"]
    /\ slocal = [t \in Threads |-> NoSpeakLocals]
    /\ sret = [t \in Threads |-> NoReturn]
    /\ klocal = [t \in Threads |-> NoStopLocals]
    /\ kret = [t \in Threads |-> NoStopReturn]
    /\ olocal = [t \in Threads |-> NoStatusLocals]
    /\ oret = [t \in Threads |-> NoStatusReturn]
    /\ issued = [i \in 1..(MaxPending + 1) |-> i]
    /\ live = [i \in 1..(MaxPending + 1) |-> i]
    /\ signalled = FALSE
    /\ expect = NoExpect
    /\ enq = [t \in Threads |-> 0]
    /\ kctx = [t \in Threads |-> NoCtx]
    /\ halted = FALSE
    /\ calm = 1..(MaxPending + 1)
    /\ dequeued = <<1>>
    /\ purged = {}
    /\ cleared_total = 0
    /\ durations = [n \in 1..(MaxPending + 1) |-> 16]
    /\ volume_arg = Omitted
    /\ stored_volume = [n \in 1..(MaxPending + 1) |-> ClampVolume(VolumeParam(Omitted))]
    /\ ahead = [t \in Threads |-> NoAhead]

StopNext ==
    \/ WorkerStep
    \/ DeviceEnd
    \/ \E t \in Threads : StopStep(t)
    \/ \E t \in Threads : StatusStep(t)
    \/ \E t \in Threads : Done(t)

StopSpec == StopInit /\ [][StopNext]_vars

\* The worker is a daemon thread that is always scheduled again, and every
\* playback that starts comes to an end; a return value is delivered.
\* (Strong fairness, because a step is disabled during a delivery.)
WorkerFairSpec ==
    /\ StopInit /\ [][StopNext]_vars
    /\ SF_vars(WorkerStep)
    /\ SF_vars(DeviceEnd)
    /\ \A t \in Threads : WF_vars(Done(t))

\* The caller scenario: both handler threads submit, and one of them also
\* calls speech_stop and speech_status.  Handler threads are always scheduled
\* again and return values delivered; the worker is only assumed to leave the
\* with block of its dequeue step.  Nothing is assumed of the playback: it
\* may go on forever.
CallerNext ==
    \/ WorkerStep
    \/ DeviceEnd
    \/ \E t \in Threads : SpeakStep(t)
    \/ StopStep("t1")
    \/ StatusStep("t1")
    \/ \E t \in Threads : Done(t)

CallerFairSpec ==
    /\ Init /\ [][CallerNext]_vars
    /\ \A t \in Threads : SF_vars(SpeakStep(t) \/ StopStep(t) \/ StatusStep(t))
    /\ \A t \in Threads : WF_vars(Done(t))
    /\ SF_vars(WorkerDequeue)

\* The estimate scenario: MaxAhead items are pending and the worker is idle;
\* they came from calls that left the volume out.  The audio durations and
\* the volume argument of the calls of the run are inputs; the handler
\* threads call speak, and the worker plays.
EstimateInit ==
    /\ queue = [i \in 1..MaxAhead |-> Item(i)]
    /\ queue_lock = Free
    /\ now_playing = None
    /\ stop_event = FALSE
    /\ next_id = MaxAhead
    /\ busy = FALSE
    /\ wpc = "Idle"
    /\ item = None
    /\ pc = [t \in Threads |-> "idle"]
    /\ slocal = [t \in Threads |-> NoSpeakLocals]
    /\ sret = [t \in Threads |-> NoReturn]
    /\ klocal = [t \in Threads |-> NoStopLocals]
    /\ kret = [t \in Threads |-> NoStopReturn]
    /\ olocal = [t \in Threads |-> NoStatusLocals]
    /\ oret = [t \in Threads |-> NoStatusReturn]
    /\ issued = [i \in 1..MaxAhead |-> i]
    /\ live = [i \in 1..MaxAhead |-> i]
    /\ signalled = FALSE
    /\ expect = NoExpect
    /\ enq = [t \in Threads |-> 0]
    /\ kctx = [t \in Threads |-> NoCtx]
    /\ halted = FALSE
    /\ calm = 1..MaxAhead
    /\ dequeued = <<>>
    /\ purged = {}
    /\ cleared_total = 0
    /\ durations \in [1..(MaxAhead + 1) -> Durations]
    /\ volume_arg \in Volumes
    /\ stored_volume = [n \in 1..(MaxAhead + 1) |->
                          IF n <= MaxAhead THEN ClampVolume(VolumeParam(Omitted)) ELSE 0]
    /\ ahead = [t \in Threads |-> NoAhead]

EstimateNext ==
    \/ WorkerStep
    \/ DeviceEnd
    \/ \E t \in Threads : SpeakStep(t)
    \/ \E t \in Threads : Done(t)

EstimateSpec == EstimateInit /\ [][EstimateNext]_vars

\* ================================================================ claims
StrictlyIncreasing(s) == \A i, j \in 1..Len(s) : i < j => s[i] < s[j]

\* C1: items are played in the order they were appended.  live lists the
\* items appended and neither purged nor cleaned up, in append order: the
\* item the worker holds (dequeued, published or playing) is always the
\* earliest of them, the pending deque is the rest in that order, and the
\* slot of the previous item has been cleared before the next is published.
C1_PlayedInAppendOrder ==
    /\ item # None => live # <<>> /\ Head(live) = item.id
    /\ IdSeq(queue) = (IF item # None /\ live # <<>> THEN Tail(live) ELSE live)
    /\ Truthy(now_playing) => now_playing = item
    /\ wpc \in {"Idle", "Dequeue", "Publish"} => now_playing = None
C1_Witness ==
    /\ wpc = "ClearSignal"
    /\ Len(queue) >= 1
    /\ \A t \in Threads : pc[t] = "idle"

\* C2 (as claimed): a speech_stop(clear_queue=true) call made while an item
\* is playing and k >= 1 items are pending, with no speak call and no other
\* purge during it, reports in its response the playing item as stopped and
\* cleared_count = k, and leaves the pending deque empty with no other item
\* taken by the worker.
C2_Claim ==
    \A t \in Threads :
        (pc[t] = "returned" /\ kret[t].kind = "ok" /\ kctx[t] >= 1)
        => /\ kret[t].stopped # 0
           /\ kret[t].cleared_count = kctx[t]
           /\ queue = <<>>
           /\ item.id \in {0, kret[t].stopped}

\* C3: speech_stop(clear_queue=false) called while A plays with B then C
\* pending: the response has cleared_count = 0; no step of the call changes
\* the pending deque; once the event has reached the playing item the busy
\* loop breaks at its next poll and the settle wait is skipped; and the next
\* item the worker publishes is B, with C still pending at that moment.
C3_StopWithoutPurge ==
    /\ [](\A t \in Threads :
            (pc[t] = "returned" /\ kret[t].kind = "ok" /\ ~klocal[t].clear_queue)
            => kret[t].cleared_count = 0)
    /\ [][\A t \in Threads :
            (pc'[t] # pc[t] /\ pc'[t] \in StopPcs \cup {"returned"}
             /\ (pc[t] \in StopPcs \/ pc'[t] \in StopPcs)
             /\ ~klocal'[t].clear_queue)
            => queue' = queue]_vars
    /\ [][/\ (signalled /\ wpc = "Poll" /\ wpc' # wpc) => (wpc' = "Post" /\ ~busy')
          /\ (signalled /\ wpc = "Post" /\ wpc' # wpc) => wpc' = "Finally"]_vars
    /\ []((wpc = "ClearSignal" /\ expect.next # 0)
            => (now_playing.id = expect.next /\ expect.then \in Ids(queue)))
C3_Witness ==
    /\ wpc = "ClearSignal"
    /\ expect = [next |-> 2, then |-> 3]
    /\ now_playing = Item(2)
    /\ 3 \in Ids(queue)

\* C4: the now-playing slot holds nothing or one item that was created, and
\* that item is not in the pending deque.
C4_SlotNotPending ==
    /\ now_playing \in {None} \cup {Item(i) : i \in 1..next_id}
    /\ Truthy(now_playing) => now_playing.id \notin Ids(queue)
C4_Witness == Truthy(now_playing) /\ wpc = "Poll" /\ queue # <<>>

\* C5 (as claimed): once no speak call is in flight, the pending deque that
\* speech_status reports has its ids strictly increasing from head to tail.
C5_Claim ==
    \A t \in Threads :
        (/\ pc[t] = "returned"
         /\ oret[t].kind = "ok"
         /\ \A u \in Threads : pc[u] \notin SpeakPcs)
        => StrictlyIncreasing(oret[t].queued)

\* C6: every id handed out by _next_playback_id is greater than all handed
\* out before, and no two items alive share an id.
C6_IdsIncreasing ==
    /\ StrictlyIncreasing(issued)
    /\ \A i, j \in 1..Len(live) : i # j => live[i] # live[j]
C6_Witness == pc["t1"] = "s173" /\ pc["t2"] = "s173"

BackendErrors == {"tts_error", "conn_error", "timeout_error"}
\* C7: a speak call that fails at the backend (non-200, connection refused,
\* timeout) returns an error and changes neither the pending deque, the
\* slot, the event nor the id counter; it has taken no id and appended nothing.
C7_BackendFailureChangesNothing ==
    [][\A t \in Threads :
          (pc[t] = "idle" /\ pc'[t] = "returned" /\ sret'[t].kind \in BackendErrors)
          => /\ queue' = queue
             /\ now_playing' = now_playing
             /\ stop_event' = stop_event
             /\ next_id' = next_id
             /\ enq'[t] = 0]_vars
C7_Witness ==
    \E t \in Threads :
        /\ pc[t] = "returned"
        /\ sret[t].kind = "tts_error"
        /\ Len(queue) = 1
        /\ Truthy(now_playing)

WorkerPcs == {"Idle", "Dequeue", "Publish", "ClearSignal", "Load", "Play",
              "Busy", "Poll", "Post", "Settle", "Except", "Finally"}
\* C9: an error while loading or playing never ends the worker: from its
\* except clause it clears the slot and is back at the head of its loop, and
\* every pending item is eventually published unless it is purged, provided
\* each playback that starts ends.
C9_WorkerSurvivesErrors ==
    /\ [](wpc \in WorkerPcs)
    /\ (wpc = "Except") ~> (wpc = "Idle" /\ now_playing = None /\ item = None)
    /\ \A i \in 1..(MaxPending + 1) :
          (i \in Ids(queue)) ~> (now_playing.id = i \/ (i \notin Ids(queue) /\ item.id # i))
C9_Witness == wpc = "Except" /\ Len(queue) = MaxPending

\* C10: the worker holds the lock only in its dequeue step, and every tool
\* call returns even if the item that is playing never stops.
C10_CallersNeverWait ==
    /\ [](queue_lock = Worker => wpc = "Dequeue")
    /\ \A t \in Threads : (pc[t] # "idle") ~> (pc[t] = "returned")
C10_Witness ==
    \E t \in Threads : pc[t] = "s173" /\ queue_lock = Worker /\ queue # <<>>

\* C13: once the event is set while the worker is playing an item (after it
\* cleared the event for the item and started output), the event stays set
\* for that item, the next poll stops the output and leaves the busy loop,
\* the settle wait is not made, and the worker clears the slot and is idle.
C13_SignalStopsPlayback ==
    /\ [](signalled => (stop_event /\ wpc # "Settle"))
    /\ [][(signalled /\ wpc = "Poll" /\ wpc' # wpc) => (wpc' = "Post" /\ ~busy')]_vars
    /\ signalled ~> (wpc = "Idle" /\ now_playing = None)
C13_Witness == signalled /\ wpc = "Finally" /\ ~busy /\ Truthy(now_playing)

\* C14 (as claimed): when a speech_stop call returns a response that reports
\* as stopped the item the worker still holds, the event that call set is
\* still set and the worker is not about to clear it for that item.
C14_Claim ==
    \A t \in Threads :
        (pc[t] = "returned" /\ kret[t].kind = "ok"
         /\ kret[t].stopped # 0 /\ kret[t].stopped = item.id)
        => (stop_event /\ wpc # "ClearSignal")

\* C15 (as claimed): every item appended and neither finished nor purged is
\* in exactly one of the pending deque and the now-playing slot, and the slot
\* is non-empty exactly when the worker holds a dequeued item.
C15_Claim ==
    /\ \A i \in 1..Len(live) :
          (live[i] \in Ids(queue)) # (now_playing.id = live[i])
    /\ Truthy(now_playing) <=> (item # None)

\* C16 (as claimed): the settle wait is skipped only for an item whose output
\* the worker stopped; an item that completed naturally always gets it.
C16_Claim ==
    [][(wpc = "Post" /\ wpc' = "Finally") => halted]_vars

\* C16 (amended): after the busy loop the worker makes the settle wait
\* exactly when the event is not set at the check of line 88, and then goes
\* on to clean up without having touched the deque; an item whose output it
\* stopped never gets the settle wait.
C16_SettleUnlessSignalled ==
    /\ [][(wpc = "Post" /\ wpc' # wpc)
            => ((~stop_event => wpc' = "Settle") /\ (stop_event => wpc' = "Finally"))]_vars
    /\ [][(wpc = "Settle" /\ wpc' # wpc)
            => (wpc' = "Finally" /\ queue' = queue /\ item' = item)]_vars
    /\ [](halted => wpc \in {"Post", "Finally"})
C16_Witness == wpc = "Settle" /\ ~halted /\ ~busy /\ queue # <<>>

\* C17: the worker clears the event for each item it has published, before
\* the output starts, so an item appended while no speech_stop call was
\* running, with none called since, never meets a set event once the worker
\* has cleared it: its output is not stopped and it gets the settle wait.
C17_StaleSignalCleared ==
    /\ []((item.id \in calm /\ wpc \notin {"Idle", "Dequeue", "Publish", "ClearSignal"})
            => (~stop_event /\ ~halted))
    /\ [][(wpc = "ClearSignal" /\ wpc' # wpc) => (~stop_event' /\ ~busy')]_vars
    /\ [][(item.id \in calm /\ wpc = "Post" /\ wpc' # wpc) => wpc' = "Settle"]_vars
C17_Witness == item.id \in calm /\ stop_event /\ wpc = "ClearSignal"

\* C11 (as claimed): the estimated wait of a speak call that returns the
\* record is the sum of the durations of the items ahead of the new one when
\* it is appended, plus half the duration of the item in the slot at that
\* moment (tenths against eighths: w/10 = a/8).
C11_Claim ==
    \A t \in Threads : (pc[t] = "returned" /\ sret[t].kind = "ok") =>
        4 * sret[t].estimated_wait =
            5 * (ahead[t].sum + (IF ahead[t].at_append # 0
                                   THEN durations[ahead[t].at_append] \div 2 ELSE 0))
\* C11 (amended): the estimated wait returned is, rounded to one decimal
\* (the even tenth of two equally near ones), the sum of the durations of
\* the items ahead of the new one when it is appended, plus half the
\* duration of the item that speak finds in the slot when it reads the slot
\* after the append, if it finds one; behind 2.0 and 3.0 with nothing found
\* playing it is 5.0.
C11_EstimatedWaitRounded ==
    \A t \in Threads : (pc[t] = "returned" /\ sret[t].kind = "ok") =>
        /\ sret[t].estimated_wait =
             Round1(ahead[t].sum + (IF ahead[t].at_read # 0
                                      THEN durations[ahead[t].at_read] \div 2 ELSE 0))
        /\ (ahead[t].sum = 16 + 24 /\ ahead[t].at_read = 0) => sret[t].estimated_wait = 50
C11_Witness ==
    \E t \in Threads :
        /\ pc[t] = "returned" /\ sret[t].kind = "ok"
        /\ durations[1] = 16 /\ durations[2] = 24
        /\ IdSeq(queue) = <<1, 2, 3>>
        /\ ahead[t].at_append = 0 /\ ahead[t].at_read = 0
        /\ sret[t].estimated_wait = 50

ClampInto(v) == Max(MinVolume, Min(MaxVolume, v))
\* C12 (as claimed): the volume stored in the item that a speak call has
\* appended is the volume given to the call clamped into [0.01, 1.00], or
\* 0.15 when none is given; and the volume of every item in the store is
\* within [0.01, 1.00].
C12_Claim ==
    /\ \A t \in Threads : enq[t] # 0 =>
          stored_volume[enq[t]] =
             (IF volume_arg.given THEN ClampInto(volume_arg.value) ELSE DefaultVolume)
    /\ \A i \in 1..Len(queue) : stored_volume[queue[i].id] \in MinVolume..MaxVolume

Range(f) == {f[i] : i \in DOMAIN f}
Appended == Range(issued) \ {slocal[t].playback_id : t \in {u \in Threads : pc[u] = "s173"}}
\* C18: every item appended is in exactly one place: pending, taken by the
\* worker (held or finished), or purged; no item is taken twice, a purged
\* item is never taken, and the cleared_count values returned add up to the
\* number of purged items.
C18_NoItemLostOrDuplicated ==
    /\ Appended = Ids(queue) \cup Range(dequeued) \cup purged
    /\ Ids(queue) \cap Range(dequeued) = {}
    /\ Ids(queue) \cap purged = {}
    /\ Range(dequeued) \cap purged = {}
    /\ Cardinality(Ids(queue)) = Len(queue)
    /\ Cardinality(Range(dequeued)) = Len(dequeued)
    /\ item # None => (dequeued # <<>> /\ dequeued[Len(dequeued)] = item.id)
    /\ cleared_total = Cardinality(purged)
C18_Witness == purged # {} /\ Truthy(now_playing) /\ cleared_total = 1 /\ queue = <<>>

\* C19 (as claimed): speech_status and speech_stop always return a
\* well-formed response; neither ever subscripts an empty slot and raises.
C19_Claim ==
    \A t \in Threads :
        pc[t] = "returned" => (kret[t].kind # "raised" /\ oret[t].kind # "raised")

\* C20 (as claimed): a speech_status response never lists one id both as
\* now_playing and in queued, and its queue_depth is the length of queued.
C20_Claim ==
    \A t \in Threads :
        (pc[t] = "returned" /\ oret[t].kind = "ok")
        => /\ \A i \in 1..Len(oret[t].queued) : oret[t].queued[i] # oret[t].now_playing
           /\ oret[t].queue_depth = Len(oret[t].queued)

====
